---- MODULE Spec2Model ----
(***************************************************************************)
(* Contact form back end of portfolio-v2: the in-memory fixed-window rate  *)
(* limiter (lib/server/rate-limit.ts), the client identity extractor       *)
(* (lib/server/get-client-ip.ts), the submission schema                    *)
(* (lib/contact/schema.ts), the Brevo transport (services/brevo.service,   *)
(* lib/email/brevo) and the POST /api/contact route that chains them.      *)
(*                                                                         *)
(* Strings are sequences of one-character strings, so that split and trim  *)
(* are computed and not assumed.  Time is Date.now() in milliseconds.      *)
(***************************************************************************)
EXTENDS Integers, Sequences, FiniteSets, TLC

VARIABLES
    now,            \* Date.now()
    rateLimitMap,   \* rate-limit.ts: Map<string, RateLimitRecord>, a function on the keys present
    nextSweep,      \* instant at which the setInterval timer of rate-limit.ts is next due
    env,            \* process.env: NODE_ENV and the BREVO_* variables
    req,            \* one record per request slot: the position of its POST handler and its facts
    posts,          \* number of isRateLimited calls made so far (bounds the run)
    win,            \* observer: per key, the fixed window the latest call fell in and its rank in it
    last,           \* observer: the latest isRateLimited call (key, result)
    audit,          \* observer: the table and the results of the same calls when no sweep runs
    probe,          \* a caller of getClientIp: its headers and what it was returned
    form,           \* the contact form in the browser: values, mutation, what is rendered
    hist            \* observer: per key, the instants of its calls that passed and of its latest refusal

vars == <<now, rateLimitMap, nextSweep, env, req, posts, win, last, audit, probe, form, hist>>

-----------------------------------------------------------------------------
(* Bounds of the model *)

\* instants range over MaxWindows window lengths
MaxWindows == 2
\* isRateLimited calls per behaviour
MaxPosts == 7
\* characters of a header value given to getClientIp
MaxHeaderLen == 3
\* isRateLimited calls per behaviour when their instants are recorded
MaxTimedPosts == 12

-----------------------------------------------------------------------------
(* rate-limit.ts *)

DEFAULT_MAX_REQUESTS == 5
DEFAULT_WINDOW_MS == 60 * 1000
SWEEP_INTERVAL_MS == 5 * 60 * 1000

\* `options` undefined, or an object without the property: a function without that key
NoOptions == [x \in {} |-> 0]

\* options?.p ?? d
OptionOr(options, p, d) == IF p \in DOMAIN options THEN options[p] ELSE d

\* rateLimitMap.set(key, record)
MapSet(map, key, record) ==
    [k \in DOMAIN map \cup {key} |-> IF k = key THEN record ELSE map[k]]

\* A mutant of isRateLimited: the comparison with maxRequests is >= instead of >.
isRateLimitedOffByOne(map, key, options, t) ==
    LET maxRequests == OptionOr(options, "maxRequests", DEFAULT_MAX_REQUESTS)
        windowMs == OptionOr(options, "windowMs", DEFAULT_WINDOW_MS)
    IN  IF key \notin DOMAIN map \/ t > map[key].resetTime
        THEN [map |-> MapSet(map, key, [count |-> 1, resetTime |-> t + windowMs]),
              limited |-> FALSE]
        ELSE LET count == map[key].count + 1
             IN  [map |-> [map EXCEPT ![key].count = count],
                  limited |-> count >= maxRequests]

\* A mutant of isRateLimited: a sliding window, every call in the window postpones
\* resetTime.
isRateLimitedSliding(map, key, options, t) ==
    LET maxRequests == OptionOr(options, "maxRequests", DEFAULT_MAX_REQUESTS)
        windowMs == OptionOr(options, "windowMs", DEFAULT_WINDOW_MS)
    IN  IF key \notin DOMAIN map \/ t > map[key].resetTime
        THEN [map |-> MapSet(map, key, [count |-> 1, resetTime |-> t + windowMs]),
              limited |-> FALSE]
        ELSE LET count == map[key].count + 1
             IN  [map |-> [map EXCEPT ![key] = [count |-> count, resetTime |-> t + windowMs]],
                  limited |-> count > maxRequests]

\* A mutant of isRateLimited: a key over its limit is refused without being counted.
isRateLimitedStopsCounting(map, key, options, t) ==
    LET maxRequests == OptionOr(options, "maxRequests", DEFAULT_MAX_REQUESTS)
        windowMs == OptionOr(options, "windowMs", DEFAULT_WINDOW_MS)
    IN  IF key \notin DOMAIN map \/ t > map[key].resetTime
        THEN [map |-> MapSet(map, key, [count |-> 1, resetTime |-> t + windowMs]),
              limited |-> FALSE]
        ELSE IF map[key].count > maxRequests
             THEN [map |-> map, limited |-> TRUE]
             ELSE LET count == map[key].count + 1
                  IN  [map |-> [map EXCEPT ![key].count = count],
                       limited |-> count > maxRequests]

\* A mutant of isRateLimited: a new window is opened on a table emptied first.
isRateLimitedClears(map, key, options, t) ==
    LET maxRequests == OptionOr(options, "maxRequests", DEFAULT_MAX_REQUESTS)
        windowMs == OptionOr(options, "windowMs", DEFAULT_WINDOW_MS)
    IN  IF key \notin DOMAIN map \/ t > map[key].resetTime
        THEN [map |-> MapSet(NoOptions, key, [count |-> 1, resetTime |-> t + windowMs]),
              limited |-> FALSE]
        ELSE LET count == map[key].count + 1
             IN  [map |-> [map EXCEPT ![key].count = count],
                  limited |-> count > maxRequests]

\* A mutant of isRateLimited: the limit is one request more than maxRequests.
isRateLimitedOneMore(map, key, options, t) ==
    LET maxRequests == OptionOr(options, "maxRequests", DEFAULT_MAX_REQUESTS)
        windowMs == OptionOr(options, "windowMs", DEFAULT_WINDOW_MS)
    IN  IF key \notin DOMAIN map \/ t > map[key].resetTime
        THEN [map |-> MapSet(map, key, [count |-> 1, resetTime |-> t + windowMs]),
              limited |-> FALSE]
        ELSE LET count == map[key].count + 1
             IN  [map |-> [map EXCEPT ![key].count = count],
                  limited |-> count > maxRequests + 1]

\* isRateLimited(key, options) called at instant t with the table `map`:
\* the table after the call and the value returned.
isRateLimited(map, key, options, t) ==
    LET maxRequests == OptionOr(options, "maxRequests", DEFAULT_MAX_REQUESTS)
        windowMs == OptionOr(options, "windowMs", DEFAULT_WINDOW_MS)
    IN  IF key \notin DOMAIN map \/ t > map[key].resetTime
        THEN [map |-> MapSet(map, key, [count |-> 1, resetTime |-> t + windowMs]),
              limited |-> FALSE]
        ELSE LET count == map[key].count + 1
             IN  [map |-> [map EXCEPT ![key].count = count],
                  limited |-> count > maxRequests]

\* A mutant of cleanupRateLimitMap: every record is deleted, expired or not.
cleanupRateLimitMapAll(map, t) == [k \in {} |-> map[k]]

\* cleanupRateLimitMap() run at instant t
cleanupRateLimitMap(map, t) ==
    [k \in {x \in DOMAIN map : ~(t > map[x].resetTime)} |-> map[k]]

-----------------------------------------------------------------------------
(* The clock *)

\* The instants the clock visits: each multiple of the window length up to
\* MaxWindows of them, and the millisecond after it.
Instants == {k * DEFAULT_WINDOW_MS + o : k \in 0..MaxWindows, o \in {0, 1}}

\* The clock advances to a later instant.
Tick ==
    /\ \E t \in Instants : t > now /\ now' = t
    /\ UNCHANGED <<rateLimitMap, nextSweep, env, hist, req, posts, win, last, audit, probe, form>>

-----------------------------------------------------------------------------
(* get-client-ip.ts *)

\* s.split(',')[0]
SplitFirst(s) ==
    LET commas == {i \in 1..Len(s) : s[i] = ","}
    IN  IF commas = {} THEN s
        ELSE SubSeq(s, 1, (CHOOSE i \in commas : \A j \in commas : i <= j) - 1)

\* s.trim()
Trim(s) ==
    LET ink == {i \in 1..Len(s) : s[i] # " "}
    IN  IF ink = {} THEN <<>>
        ELSE SubSeq(s, CHOOSE i \in ink : \A j \in ink : i <= j,
                       CHOOSE i \in ink : \A j \in ink : i >= j)

\* `if (headers.get(name))`: the header is present and not the empty string
Truthy(headers, name) == name \in DOMAIN headers /\ headers[name] # <<>>

unknown == <<"u", "n", "k", "n", "o", "w", "n">>

\* A mutant of getClientIp: the first entry is not trimmed.
getClientIpNoTrim(headers) ==
    IF Truthy(headers, "x-forwarded-for")
    THEN SplitFirst(headers["x-forwarded-for"])
    ELSE IF Truthy(headers, "x-real-ip")
         THEN headers["x-real-ip"]
         ELSE unknown

\* getClientIp(request), on the request's headers (a function on the header names present)
getClientIp(headers) ==
    IF Truthy(headers, "x-forwarded-for")
    THEN Trim(SplitFirst(headers["x-forwarded-for"]))
    ELSE IF Truthy(headers, "x-real-ip")
         THEN headers["x-real-ip"]
         ELSE unknown

\* The headers the requests of the route arrive with: one client behind a proxy.
PostHeaders == { [h \in {"x-forwarded-for"} |-> <<"a", " ", ",", "b">>] }

\* The headers isRateLimited's direct callers derive their keys from.
HeaderChoices ==
    { [h \in {"x-forwarded-for"} |-> <<"a", " ", ",", "b">>],
      [h \in {"x-forwarded-for", "x-real-ip"} |->
          IF h = "x-forwarded-for" THEN <<>> ELSE <<"a">>],
      [h \in {"x-real-ip"} |-> <<"b">>] }

\* The header values getClientIp is given: every string of at most MaxHeaderLen
\* characters among a letter, the comma and the space, as Headers.get returns
\* it, that is without leading or trailing white space.
HeaderValues ==
    {v \in UNION {[1..n -> {"a", ",", " "}] : n \in 0..MaxHeaderLen} :
        v = <<>> \/ (v[1] # " " /\ v[Len(v)] # " ")}

\* The headers of a request: each of the two headers absent, empty or set.
ProbeHeaders ==
    {[h \in D |-> IF h = "x-forwarded-for" THEN x ELSE r] :
        D \in SUBSET {"x-forwarded-for", "x-real-ip"},
        x \in HeaderValues,
        r \in {<<>>, <<"a">>, <<"b">>}}

NoProbe == [headers |-> NoOptions, calls |-> 0, first |-> <<>>, result |-> <<>>]

\* getClientIp(request) is called on the probe's request, at most twice.
ProbeCall ==
    /\ probe.calls < 2
    /\ LET ip == getClientIp(probe.headers)
       IN  probe' = [probe EXCEPT !.calls = @ + 1, !.result = ip,
                                  !.first = IF probe.calls = 0 THEN ip ELSE @]
    /\ UNCHANGED <<now, rateLimitMap, nextSweep, env, hist, req, posts, win, last, audit, form>>

-----------------------------------------------------------------------------
(* Observer of the limiter: the fixed windows as the callers see them.  A   *)
(* window of a key opens with the first call made after the previous one   *)
(* closed and covers DEFAULT_WINDOW_MS milliseconds, both ends included.   *)

\* n: rank of the latest call in its window; closed: calls of the window before it
ObserveWindow(w, key, t) ==
    IF key \notin DOMAIN w
    THEN MapSet(w, key, [start |-> t, n |-> 1, closed |-> 0])
    ELSE IF t > w[key].start + DEFAULT_WINDOW_MS
         THEN [w EXCEPT ![key] = [start |-> t, n |-> 1, closed |-> w[key].n]]
         ELSE [w EXCEPT ![key].n = @ + 1]

\* The same call on the table that is never swept (ref) and its result there;
\* resumed: the latest call found its key's record swept away; passed: per key, the
\* calls of the window of its latest call that were not limited.
ObserveCall(a, key, t, limited) ==
    LET r == isRateLimited(a.ref, key, NoOptions, t)
        opens == key \notin DOMAIN win \/ t > win[key].start + DEFAULT_WINDOW_MS
        before == IF opens THEN 0 ELSE a.passed[key]
    IN  [ref |-> r.map,
         limited |-> r.limited,
         resumed |-> key \in DOMAIN a.ref /\ key \notin DOMAIN rateLimitMap,
         passed |-> MapSet(a.passed, key, before + (IF limited THEN 0 ELSE 1))]

\* One isRateLimited(key) call with the default policy, at the current instant,
\* in a behaviour of at most `most` calls.
CheckStepUpTo(key, most) ==
    LET r == isRateLimited(rateLimitMap, key, NoOptions, now)
    IN  /\ posts < most
        /\ posts' = posts + 1
        /\ rateLimitMap' = r.map
        /\ last' = [made |-> TRUE, key |-> key, limited |-> r.limited]
        /\ win' = ObserveWindow(win, key, now)
        /\ audit' = ObserveCall(audit, key, now, r.limited)

CheckStep(key) == CheckStepUpTo(key, MaxPosts)

\* The instants of the calls of a key: passes, per instant, the calls made at it
\* that were not limited; refused, the instant of the latest call that was (-1
\* when none was).
ObserveTimes(h, key, t, limited) ==
    LET old == IF key \in DOMAIN h THEN h[key] ELSE [refused |-> -1, passes |-> NoOptions]
        n == IF t \in DOMAIN old.passes THEN old.passes[t] ELSE 0
    IN  MapSet(h, key, IF limited THEN [old EXCEPT !.refused = t]
                       ELSE [old EXCEPT !.passes = MapSet(old.passes, t, n + 1)])

\* isRateLimited called directly, its instant recorded
CheckTimed ==
    /\ \E h \in PostHeaders :
        /\ CheckStepUpTo(getClientIp(h), MaxTimedPosts)
        /\ hist' = ObserveTimes(hist, getClientIp(h), now, last'.limited)
    /\ UNCHANGED <<now, nextSweep, env, req, probe, form>>

\* isRateLimited called directly
Check ==
    /\ \E h \in HeaderChoices : CheckStep(getClientIp(h))
    /\ UNCHANGED <<now, nextSweep, env, hist, req, probe, form>>

\* The setInterval timer of rate-limit.ts fires: cleanupRateLimitMap runs.  The
\* module was loaded at an unknown instant before the run, so the first firing
\* may fall on any instant of it; the next one is due a period later.
Sweep ==
    /\ now >= nextSweep
    /\ rateLimitMap' = cleanupRateLimitMap(rateLimitMap, now)
    /\ nextSweep' = nextSweep + SWEEP_INTERVAL_MS
    /\ UNCHANGED <<now, env, hist, req, posts, win, last, audit, probe, form>>

-----------------------------------------------------------------------------
(* schema.ts: contactSchema, on JSON values *)

\* A JSON value of a body field.  A string is kept as its length and what it
\* spells: "text", "email" (a well-formed address) or the literal of an enum.
Undefined == [type |-> "undefined"]
Str(n, spells) == [type |-> "string", len |-> n, spells |-> spells]

projectTypes == {"website", "webapp", "mobile", "ecommerce", "other"}
budgetRanges ==
    {"less-than-5k", "5k-10k", "10k-25k", "25k-50k", "more-than-50k", "not-sure"}

Fields == <<"name", "email", "subject", "message", "projectType", "budget", "honeypot">>

Issue(field, message) == [field |-> field, message |-> message]

\* A mutant of StringIssues: the maximum length is not checked.
StringIssuesNoMax(field, v, lo, minMsg, hi, maxMsg) ==
    IF v.type # "string"
    THEN <<Issue(field, "Invalid input: expected string, received undefined")>>
    ELSE IF v.len < lo THEN <<Issue(field, minMsg)>> ELSE <<>>

\* z.string().min(lo, minMsg).max(hi, maxMsg)
StringIssues(field, v, lo, minMsg, hi, maxMsg) ==
    IF v.type # "string"
    THEN <<Issue(field, "Invalid input: expected string, received undefined")>>
    ELSE (IF v.len < lo THEN <<Issue(field, minMsg)>> ELSE <<>>)
         \o (IF v.len > hi THEN <<Issue(field, maxMsg)>> ELSE <<>>)

\* z.email(msg).max(hi, maxMsg): the format and the length are checked both
EmailIssues(field, v, msg, hi, maxMsg) ==
    IF v.type # "string"
    THEN <<Issue(field, msg)>>
    ELSE (IF v.spells # "email" THEN <<Issue(field, msg)>> ELSE <<>>)
         \o (IF v.len > hi THEN <<Issue(field, maxMsg)>> ELSE <<>>)

\* z.enum(values).optional()
EnumIssues(field, v, values) ==
    IF v.type = "undefined" \/ (v.type = "string" /\ v.spells \in values)
    THEN <<>>
    ELSE <<Issue(field, "Invalid option")>>

\* z.string().max(0, 'Ce champ doit rester vide').optional()
HoneypotIssues(field, v) ==
    IF v.type = "undefined" THEN <<>>
    ELSE IF v.len > 0 THEN <<Issue(field, "Ce champ doit rester vide")>> ELSE <<>>

\* contactSchema.safeParse(o).error.issues for a JSON object o, in the order of the
\* schema's keys (empty when the parse succeeds)
contactSchemaIssues(o) ==
    StringIssues("name", o.name, 2, "Le nom doit contenir au moins 2 caracteres",
                 100, "Le nom ne peut pas depasser 100 caracteres")
    \o EmailIssues("email", o.email, "Veuillez entrer une adresse email valide",
                   255, "L'email ne peut pas depasser 255 caracteres")
    \o StringIssues("subject", o.subject, 3, "Le sujet doit contenir au moins 3 caracteres",
                    200, "Le sujet ne peut pas depasser 200 caracteres")
    \o StringIssues("message", o.message, 20,
                    "Le message doit contenir au moins 20 caracteres",
                    5000, "Le message ne peut pas depasser 5000 caracteres")
    \o EnumIssues("projectType", o.projectType, projectTypes)
    \o EnumIssues("budget", o.budget, budgetRanges)
    \o HoneypotIssues("honeypot", o.honeypot)

\* The scenario submission of the design: {name: "Jo", email: "a@b.com",
\* subject: "Hi there", message: "x".repeat(20), honeypot: ""}
BaseSubmission ==
    [name |-> Str(2, "text"), email |-> Str(7, "email"), subject |-> Str(8, "text"),
     message |-> Str(20, "text"), projectType |-> Undefined, budget |-> Undefined,
     honeypot |-> Str(0, "text")]

\* The values a field is sent with: on each side of the bounds of the schema,
\* ill-formed, outside the enum, absent.
FieldValues(f) ==
    CASE f = "name" -> {Str(1, "text"), Str(100, "text"), Str(101, "text")}
      [] f = "email" -> {Str(7, "text"), Str(255, "email"), Str(256, "email")}
      [] f = "subject" -> {Str(2, "text"), Str(201, "text")}
      [] f = "message" -> {Str(5, "text"), Str(5000, "text"), Str(5001, "text")}
      [] f = "projectType" -> {Str(7, "website"), Str(5, "bogus")}
      [] f = "budget" -> {Str(5, "bogus")}
      [] f = "honeypot" -> {Undefined, Str(1, "text")}

\* The submissions sent: the scenario one, the scenario one with one field
\* changed, and one with both a short name and the honeypot filled.
Submissions ==
    {BaseSubmission}
    \cup UNION {{[BaseSubmission EXCEPT ![Fields[i]] = v] : v \in FieldValues(Fields[i])}
                 : i \in 1..Len(Fields)}
    \cup {[BaseSubmission EXCEPT !.name = Str(1, "text"), !.honeypot = Str(1, "text")]}

\* What request.json() gives: it rejects (malformed), or resolves to a JSON object
Malformed == [json |-> "malformed"]
JsonObject(o) == [json |-> "object", value |-> o]
Bodies == {Malformed} \cup {JsonObject(o) : o \in Submissions}

-----------------------------------------------------------------------------
(* brevo.service.ts and lib/email/brevo: the provider's answers *)

\* What fetch(BREVO_API_URL) and the reading of its response give:
\* the fetch rejects; a non-2xx response whose body is JSON or not; a 2xx response
\* whose body is JSON with or without messageId, or is not JSON.
ProviderOutcomes ==
    {"network-error", "non2xx-json", "non2xx-not-json",
     "ok-message-id", "ok-no-message-id", "ok-not-json"}

\* response.ok
ResponseOk(outcome) == outcome \in {"ok-message-id", "ok-no-message-id", "ok-not-json"}

-----------------------------------------------------------------------------
(* route.ts: POST /api/contact, one handler per request slot *)

\* Slot 1 serves the requests handled one after the other; slot 2 is for a
\* second request in flight at the same time.
Slots == {1, 2}

\* error: the `error` text of a failure body, message: the `message` of a success body
NoResponse ==
    [status |-> 0, success |-> FALSE, code |-> "none", errors |-> <<>>,
     messageId |-> "none", retryAfter |-> "none", error |-> "none", message |-> "none"]

\* NextResponse.json(...) of each exit of the handler
RateLimitResponse ==
    [NoResponse EXCEPT !.status = 429, !.code = "RATE_LIMIT_EXCEEDED", !.retryAfter = "60",
                       !.error = "Trop de requetes. Veuillez reessayer dans une minute."]
InvalidJsonResponse ==
    [NoResponse EXCEPT !.status = 400, !.code = "INVALID_JSON", !.error = "Invalid JSON body"]
ValidationResponse(issues) ==
    [NoResponse EXCEPT !.status = 400, !.code = "VALIDATION_ERROR", !.errors = issues,
                       !.error = "Donnees invalides"]
HoneypotResponse ==
    [NoResponse EXCEPT !.status = 200, !.success = TRUE,
                       !.message = "Message envoye avec succes !"]
SuccessResponse(messageId) ==
    [NoResponse EXCEPT !.status = 200, !.success = TRUE, !.messageId = messageId,
                       !.message = "Message envoye avec succes !"]
ServerErrorResponse ==
    [NoResponse EXCEPT !.status = 500, !.code = "SERVER_ERROR",
                       !.error = "Une erreur est survenue lors de l'envoi du message."]

\* pc: "idle", "json" (awaiting request.json()), "render" (awaiting
\* generateContactEmailContent), "fetch" (awaiting the provider), "throw" (an
\* exception is propagating), "done" (the response is returned).
\* body: what the request carries; limited: what isRateLimited returned;
\* rank: the request's rank among its client's requests of the window;
\* stages: the stages the handler has entered; fetches: calls made to the
\* provider; accepted: the provider answered 2xx; error: the Error thrown.
IdleReq ==
    [pc |-> "idle", ip |-> <<>>, body |-> Malformed, limited |-> FALSE, rank |-> 0,
     stages |-> <<>>, fetches |-> 0, accepted |-> FALSE, error |-> "none",
     response |-> NoResponse]

\* return NextResponse.json(...)
Respond(r, response) == [r EXCEPT !.pc = "done", !.response = response]

\* throw new Error(message)
Throw(r, message) == [r EXCEPT !.pc = "throw", !.error = message]

Enter(r, stage) == [r EXCEPT !.stages = @ \o <<stage>>]

\* A mutant of TryCatch: the handler has no outer try/catch.
TryCatchMissing(r) == r

\* A mutant of TryCatch: the caught error's message is sent to the caller.
TryCatchLeaksMessage(r) ==
    IF r.pc = "throw"
    THEN Respond(r, [ServerErrorResponse EXCEPT !.error = r.error])
    ELSE r

\* The try { ... } catch (error) { ... } around the handler's body
TryCatch(r) == IF r.pc = "throw" THEN Respond(r, ServerErrorResponse) ELSE r

\* `data.honeypot && data.honeypot.length > 0`
HoneypotFilled(data) == data.honeypot.type = "string" /\ data.honeypot.len > 0

\* A mutant of sendContactEmail: the development bypass is missing.
sendContactEmailNoBypass(r, e) ==
    IF ~e.BREVO_SENDER_EMAIL
    THEN Throw(r, "BREVO_SENDER_EMAIL is not defined in environment variables")
    ELSE IF ~(e.BREVO_RECEIVER_EMAIL \/ e.BREVO_SENDER_EMAIL)
         THEN Throw(r, "BREVO_RECEIVER_EMAIL is not defined in environment variables")
         ELSE [r EXCEPT !.pc = "render"]

\* sendContactEmail(params) up to its first suspension: the development bypass and
\* the checks of the sender and receiver addresses.  A returned messageId is
\* answered by the route at once.
sendContactEmail(r, e) ==
    IF e.NODE_ENV # "production"
    THEN Respond(r, SuccessResponse("dev-console"))
    ELSE IF ~e.BREVO_SENDER_EMAIL
         THEN Throw(r, "BREVO_SENDER_EMAIL is not defined in environment variables")
         ELSE IF ~(e.BREVO_RECEIVER_EMAIL \/ e.BREVO_SENDER_EMAIL)
              THEN Throw(r, "BREVO_RECEIVER_EMAIL is not defined in environment variables")
              ELSE [r EXCEPT !.pc = "render"]

\* A mutant of AfterBody: the validation failure is logged but not returned.
AfterBodyNoValidationReturn(r, e) ==
    IF r.body.json = "malformed"
    THEN Respond(Enter(r, "parse"), InvalidJsonResponse)
    ELSE IF HoneypotFilled(r.body.value)
         THEN Respond(Enter(Enter(Enter(r, "parse"), "validate"), "honeypot"),
                      HoneypotResponse)
         ELSE sendContactEmail(
                  Enter(Enter(Enter(Enter(r, "parse"), "validate"), "honeypot"), "send"), e)

\* A mutant of AfterBody: request.json() is not wrapped in its own try/catch, its
\* rejection reaches the handler's outer catch.
AfterBodyNoJsonCatch(r, e) ==
    IF r.body.json = "malformed"
    THEN Throw(Enter(r, "parse"), "Unexpected token in JSON")
    ELSE LET issues == contactSchemaIssues(r.body.value)
             validated == Enter(Enter(r, "parse"), "validate")
         IN  IF issues # <<>>
             THEN Respond(validated, ValidationResponse(issues))
             ELSE IF HoneypotFilled(r.body.value)
                  THEN Respond(Enter(validated, "honeypot"), HoneypotResponse)
                  ELSE sendContactEmail(Enter(Enter(validated, "honeypot"), "send"), e)

\* The handler from the settling of request.json() to its next suspension, its
\* response or an exception: parse, validate, honeypot check, start of the send.
AfterBody(r, e) ==
    IF r.body.json = "malformed"
    THEN Respond(Enter(r, "parse"), InvalidJsonResponse)
    ELSE LET issues == contactSchemaIssues(r.body.value)
             validated == Enter(Enter(r, "parse"), "validate")
         IN  IF issues # <<>>
             THEN Respond(validated, ValidationResponse(issues))
             ELSE IF HoneypotFilled(r.body.value)
                  THEN Respond(Enter(validated, "honeypot"), HoneypotResponse)
                  ELSE sendContactEmail(Enter(Enter(validated, "honeypot"), "send"), e)

\* A mutant of sendBrevoEmail: the request is posted to the provider twice.
sendBrevoEmailTwice(r, e) ==
    IF ~e.BREVO_API_KEY
    THEN Throw(r, "BREVO_API_KEY is not defined in environment variables")
    ELSE [r EXCEPT !.pc = "fetch", !.fetches = @ + 2]

\* A mutant of sendBrevoEmail: the API key is not checked before the fetch.
sendBrevoEmailNoKeyCheck(r, e) == [r EXCEPT !.pc = "fetch", !.fetches = @ + 1]

\* sendBrevoEmail(requestBody) up to the fetch
sendBrevoEmail(r, e) ==
    IF ~e.BREVO_API_KEY
    THEN Throw(r, "BREVO_API_KEY is not defined in environment variables")
    ELSE [r EXCEPT !.pc = "fetch", !.fetches = @ + 1]

\* sendBrevoEmail from the provider's answer on, and the end of sendContactEmail
\* and of the handler
AfterFetch(r, outcome) ==
    LET r1 == [r EXCEPT !.accepted = ResponseOk(outcome)]
    IN  CASE outcome = "network-error" -> Throw(r1, "fetch failed")
          [] outcome = "non2xx-json" -> Throw(r1, "Failed to send email: provider message")
          [] outcome = "non2xx-not-json" -> Throw(r1, "Failed to send email: Unknown error")
          [] outcome = "ok-not-json" -> Throw(r1, "Unexpected token in JSON")
          [] outcome = "ok-message-id" -> Respond(r1, SuccessResponse("provider-id"))
          [] outcome = "ok-no-message-id" -> Respond(r1, SuccessResponse("unknown"))

\* A mutant of PostArrives: the update of the table is lost when the handler of
\* another request is suspended.
PostArrivesLosesUpdate(s, headers, bodies) ==
    /\ req[s].pc \in {"idle", "done"}
    /\ \E h \in headers, b \in bodies :
        LET ip == getClientIp(h)
            c == isRateLimited(rateLimitMap, ip, NoOptions, now)
            r == [IdleReq EXCEPT !.ip = ip, !.body = b, !.limited = c.limited,
                                 !.rank = ObserveWindow(win, ip, now)[ip].n,
                                 !.stages = <<"rate-check">>]
        IN  /\ posts < MaxPosts
            /\ posts' = posts + 1
            /\ rateLimitMap' =
                   IF \E o \in DOMAIN req : o # s /\ req[o].pc \in {"json", "render", "fetch"}
                   THEN rateLimitMap ELSE c.map
            /\ last' = [made |-> TRUE, key |-> ip, limited |-> c.limited]
            /\ win' = ObserveWindow(win, ip, now)
            /\ audit' = ObserveCall(audit, ip, now, c.limited)
            /\ req' = [req EXCEPT ![s] =
                        TryCatch(IF c.limited THEN Respond(r, RateLimitResponse)
                                 ELSE [r EXCEPT !.pc = "json"])]

\* A request arrives: getClientIp, isRateLimited, and the 429 or the start of
\* request.json().
PostArrives(s, headers, bodies) ==
    /\ req[s].pc \in {"idle", "done"}
    /\ \E h \in headers, b \in bodies :
        LET ip == getClientIp(h)
            limited == isRateLimited(rateLimitMap, ip, NoOptions, now).limited
            r == [IdleReq EXCEPT !.ip = ip, !.body = b, !.limited = limited,
                                 !.rank = ObserveWindow(win, ip, now)[ip].n,
                                 !.stages = <<"rate-check">>]
        IN  /\ CheckStep(ip)
            /\ req' = [req EXCEPT ![s] =
                        TryCatch(IF limited THEN Respond(r, RateLimitResponse)
                                 ELSE [r EXCEPT !.pc = "json"])]

\* a request arrives at the route
PostBegin(s) ==
    /\ PostArrives(s, PostHeaders, Bodies)
    /\ UNCHANGED <<now, nextSweep, env, hist, probe, form>>

\* request.json() settles
PostBody(s) ==
    /\ req[s].pc = "json"
    /\ req' = [req EXCEPT ![s] = TryCatch(AfterBody(req[s], env))]
    /\ UNCHANGED <<now, rateLimitMap, nextSweep, env, hist, posts, win, last, audit, probe, form>>

\* generateContactEmailContent resolves and sendBrevoEmail starts
PostRendered(s) ==
    /\ req[s].pc = "render"
    /\ req' = [req EXCEPT ![s] = TryCatch(sendBrevoEmail(req[s], env))]
    /\ UNCHANGED <<now, rateLimitMap, nextSweep, env, hist, posts, win, last, audit, probe, form>>

\* the provider answers, or the fetch fails
PostFetchedWith(s, outcomes) ==
    /\ req[s].pc = "fetch"
    /\ \E o \in outcomes : req' = [req EXCEPT ![s] = TryCatch(AfterFetch(req[s], o))]

PostFetched(s) ==
    /\ PostFetchedWith(s, ProviderOutcomes)
    /\ UNCHANGED <<now, rateLimitMap, nextSweep, env, hist, posts, win, last, audit, probe, form>>

-----------------------------------------------------------------------------
(* The contact form in the browser: ContactForm, useSendContactMessageMutation, *)
(* sendContactMessage and the QueryClient's defaults                           *)

\* ui.ts: contactFormDefaultValues
contactFormDefaultValues ==
    [name |-> Str(0, "text"), email |-> Str(0, "text"), subject |-> Str(0, "text"),
     message |-> Str(0, "text"), projectType |-> Undefined, budget |-> Undefined,
     honeypot |-> Str(0, "text")]

\* What the user has typed when they stop typing: nothing, the scenario
\* submission, the scenario submission with a project type, with a name of one
\* character, with the honeypot filled.
FormChoices ==
    { contactFormDefaultValues,
      BaseSubmission,
      [BaseSubmission EXCEPT !.projectType = Str(7, "website")],
      [BaseSubmission EXCEPT !.name = Str(1, "text")],
      [BaseSubmission EXCEPT !.honeypot = Str(1, "text")] }

NoToast == [kind |-> "none", text |-> "none"]
NoErrors == [f \in {} |-> ""]

\* values: the form's values; errors: what validators.onSubmit returned;
\* pending: mutation.isPending of the mutation observed (current: its request slot);
\* shown: the isSubmitting of the latest render, which the inputs and the
\* button carry as `disabled`; toast: the latest toast; settled: how the latest
\* sendContactMessage call to settle did so; meta: per field with an onBlur
\* validator, what the validator returned when the field last lost the focus
\* ("unchecked" before it did, "undefined" when the validator accepted).
IdleForm ==
    [values |-> contactFormDefaultValues, errors |-> NoErrors, pending |-> FALSE,
     current |-> 0, shown |-> FALSE, toast |-> NoToast,
     settled |-> [made |-> FALSE, ok |-> FALSE, error |-> "none"],
     meta |-> [f \in {"name", "subject", "message"} |-> "unchecked"]]

\* validators.onBlur of the name, subject and message fields:
\* if (!value || value.length < lo) return message; return undefined
onBlur(f, v) ==
    LET lo == CASE f = "name" -> 2 [] f = "subject" -> 3 [] f = "message" -> 20
        message == CASE f = "name" -> "Le nom doit contenir au moins 2 caracteres"
                     [] f = "subject" -> "Le sujet doit contenir au moins 3 caracteres"
                     [] f = "message" -> "Le message doit contenir au moins 20 caracteres"
    IN  IF v.len = 0 \/ v.len < lo THEN message ELSE "undefined"

\* The name, subject or message field loses the focus: field.handleBlur runs
\* the field's onBlur validator on its value.
FormBlur(f) ==
    /\ form' = [form EXCEPT !.meta[f] = onBlur(f, form.values[f])]
    /\ form'.meta # form.meta
    /\ UNCHANGED <<now, rateLimitMap, nextSweep, env, hist, req, posts, win, last, audit, probe>>

\* The lengths typed in the three fields: none, and each side of the bounds of
\* the schema.
BlurLengths(f) ==
    CASE f = "name" -> {0, 1, 2, 100, 101}
      [] f = "subject" -> {0, 2, 3, 200, 201}
      [] f = "message" -> {0, 19, 20, 5000, 5001}

BlurValues ==
    {[BaseSubmission EXCEPT !.name = Str(n, "text"), !.subject = Str(u, "text"),
                            !.message = Str(m, "text")] :
        n \in BlurLengths("name"), u \in BlurLengths("subject"), m \in BlurLengths("message")}

\* A mutant of mutationsRetry: failed mutations are retried.
mutationsRetryAlways == TRUE

\* QueryProvider: defaultOptions.mutations.retry
mutationsRetry == FALSE

\* validators.onSubmit: the message of the last issue of each field that has one
FieldErrors(issues) ==
    [f \in {issues[i].field : i \in 1..Len(issues)} |->
        issues[CHOOSE i \in 1..Len(issues) :
                  /\ issues[i].field = f
                  /\ \A j \in 1..Len(issues) : issues[j].field = f => j <= i].message]

\* sendContactMessage, once the response is there: the message of the Error it
\* throws when the response is not ok
ThrownMessage(response) ==
    IF ~response.success /\ response.error # "none"
    THEN response.error
    ELSE "Erreur lors de l'envoi"

\* the onSuccess and onError callbacks given to mutation.mutate
onSuccess(f) ==
    [f EXCEPT !.toast = [kind |-> "success", text |-> "Message envoye !"],
              !.values = contactFormDefaultValues, !.errors = NoErrors]
onError(f, message) ==
    [f EXCEPT !.toast =
        [kind |-> "error",
         text |-> IF message # "" THEN message
                  ELSE "Une erreur est survenue. Veuillez reessayer."]]

\* The user changes the fields; the inputs are disabled while the render shows
\* a submission in progress.
FormEdit ==
    /\ ~form.shown
    /\ \E v \in FormChoices :
        /\ v # form.values
        /\ form' = [form EXCEPT !.values = v, !.errors = NoErrors]
    /\ UNCHANGED <<now, rateLimitMap, nextSweep, env, hist, req, posts, win, last, audit, probe>>

\* A form whose handleSubmit calls onSubmit whatever validators.onSubmit returns.
FormSubmitNoValidation ==
    /\ ~form.shown
    /\ \E s \in Slots :
        /\ req[s].pc = "idle"
        /\ \A o \in Slots : req[o].pc = "idle" => s <= o
        /\ PostArrives(s, PostHeaders, {JsonObject(form.values)})
        /\ form' = [form EXCEPT !.pending = TRUE, !.current = s, !.errors = NoErrors]
    /\ UNCHANGED <<now, nextSweep, env, hist, probe>>

\* The user submits the form (the button, or Enter in a field), which the
\* rendered `disabled` allows: form.handleSubmit() runs validators.onSubmit and,
\* when the schema passes, onSubmit calls mutation.mutate(value), whose
\* mutationFn sends the request.
FormSubmit ==
    /\ ~form.shown
    /\ LET issues == contactSchemaIssues(form.values)
       IN  IF issues # <<>>
           THEN /\ form' = [form EXCEPT !.errors = FieldErrors(issues)]
                /\ UNCHANGED <<rateLimitMap, req, posts, win, last, audit>>
           ELSE \E s \in Slots :
                /\ req[s].pc = "idle"
                /\ \A o \in Slots : req[o].pc = "idle" => s <= o
                /\ PostArrives(s, PostHeaders, {JsonObject(form.values)})
                /\ form' = [form EXCEPT !.pending = TRUE, !.current = s, !.errors = NoErrors]
    /\ UNCHANGED <<now, nextSweep, env, hist, probe>>

\* React renders the component with the mutation's state.
FormRender ==
    /\ form.shown # form.pending
    /\ form' = [form EXCEPT !.shown = form.pending]
    /\ UNCHANGED <<now, rateLimitMap, nextSweep, env, hist, req, posts, win, last, audit, probe>>

\* The fetch of a request settles: the response arrives or the network fails.
\* sendContactMessage returns or throws; a mutation that failed is run again
\* when the client retries mutations; the callbacks given to mutate run when
\* the mutation is the one the form's observer follows, that of the latest
\* mutate call.
FormSettled(s) ==
    /\ req[s].pc = "done"
    /\ \E arrives \in BOOLEAN :
        LET ok == arrives /\ req[s].response.status \in 200..299
            message == IF arrives THEN ThrownMessage(req[s].response) ELSE "Failed to fetch"
            settled == [made |-> TRUE, ok |-> ok, error |-> IF ok THEN "none" ELSE message]
        IN  IF ~ok /\ mutationsRetry
            THEN /\ PostArrives(s, PostHeaders, {req[s].body})
                 /\ UNCHANGED form
            ELSE /\ req' = [req EXCEPT ![s] = IdleReq]
                 /\ form' =
                      IF s # form.current THEN [form EXCEPT !.settled = settled]
                      ELSE [(IF ok THEN onSuccess(form) ELSE onError(form, message))
                               EXCEPT !.pending = FALSE, !.current = 0, !.settled = settled]
                 /\ UNCHANGED <<rateLimitMap, posts, win, last, audit>>
    /\ UNCHANGED <<now, nextSweep, env, hist, probe>>

ProductionEnv ==
    [NODE_ENV |-> "production", BREVO_API_KEY |-> TRUE,
     BREVO_SENDER_EMAIL |-> TRUE, BREVO_RECEIVER_EMAIL |-> TRUE]

\* The environments the process runs in: production fully configured, with the
\* receiver, the sender or the key left out, and development with everything
\* and with nothing set.
EnvChoices ==
    { ProductionEnv,
      [ProductionEnv EXCEPT !.NODE_ENV = "development"],
      [ProductionEnv EXCEPT !.BREVO_RECEIVER_EMAIL = FALSE],
      [ProductionEnv EXCEPT !.BREVO_SENDER_EMAIL = FALSE, !.BREVO_RECEIVER_EMAIL = FALSE],
      [ProductionEnv EXCEPT !.BREVO_API_KEY = FALSE],
      [ProductionEnv EXCEPT !.NODE_ENV = "development", !.BREVO_API_KEY = FALSE,
                            !.BREVO_SENDER_EMAIL = FALSE, !.BREVO_RECEIVER_EMAIL = FALSE] }

Init ==
    /\ now = 0
    /\ rateLimitMap = NoOptions
    /\ nextSweep = 0
    /\ env \in EnvChoices
    /\ req = [s \in Slots |-> IdleReq]
    /\ posts = 0
    /\ win = NoOptions
    /\ last = [made |-> FALSE, key |-> <<>>, limited |-> FALSE]
    /\ audit = [ref |-> NoOptions, limited |-> FALSE, resumed |-> FALSE, passed |-> NoOptions]
    /\ probe = NoProbe
    /\ form = IdleForm
    /\ hist = NoOptions

\* The limiter alone: calls, clock, sweep.
InitLimiter ==
    /\ Init
    /\ env = ProductionEnv

NextLimiter == Check \/ Tick \/ Sweep

SpecLimiter == InitLimiter /\ [][NextLimiter]_vars

\* The limiter alone, the instants of the calls recorded.
InitTimed ==
    /\ Init
    /\ env = ProductionEnv

NextTimed == CheckTimed \/ Tick \/ Sweep

SpecTimed == InitTimed /\ [][NextTimed]_vars

\* The route: requests handled one after the other, clock, sweep.
Next ==
    \/ PostBegin(1)
    \/ PostBody(1)
    \/ PostRendered(1)
    \/ PostFetched(1)
    \/ Tick
    \/ Sweep

Spec == Init /\ [][Next]_vars

\* The form and the route: the requests are those the form sends, within one
\* window of the rate limiter.
InitForm ==
    /\ Init
    /\ env = ProductionEnv

NextForm ==
    \/ FormEdit
    \/ FormSubmit
    \/ FormRender
    \/ \E s \in Slots : PostBody(s)
    \/ \E s \in Slots : PostRendered(s)
    \/ \E s \in Slots : PostFetched(s)
    \/ \E s \in Slots : FormSettled(s)

SpecForm == InitForm /\ [][NextForm]_vars

\* The on-blur validators alone, on every form of BlurValues.
InitBlur ==
    /\ now = 0
    /\ rateLimitMap = NoOptions
    /\ nextSweep = 0
    /\ env = ProductionEnv
    /\ req = [s \in Slots |-> IdleReq]
    /\ posts = 0
    /\ win = NoOptions
    /\ last = [made |-> FALSE, key |-> <<>>, limited |-> FALSE]
    /\ audit = [ref |-> NoOptions, limited |-> FALSE, resumed |-> FALSE, passed |-> NoOptions]
    /\ probe = NoProbe
    /\ form \in {[IdleForm EXCEPT !.values = v] : v \in BlurValues}
    /\ hist = NoOptions

NextBlur == \E f \in DOMAIN form.meta : FormBlur(f)

SpecBlur == InitBlur /\ [][NextBlur]_vars

\* getClientIp alone, on every request of ProbeHeaders.
InitIp ==
    /\ now = 0
    /\ rateLimitMap = NoOptions
    /\ nextSweep = 0
    /\ env = ProductionEnv
    /\ req = [s \in Slots |-> IdleReq]
    /\ posts = 0
    /\ win = NoOptions
    /\ last = [made |-> FALSE, key |-> <<>>, limited |-> FALSE]
    /\ audit = [ref |-> NoOptions, limited |-> FALSE, resumed |-> FALSE, passed |-> NoOptions]
    /\ probe \in {[NoProbe EXCEPT !.headers = h] : h \in ProbeHeaders}
    /\ form = IdleForm
    /\ hist = NoOptions

NextIp == ProbeCall

SpecIp == InitIp /\ [][NextIp]_vars

\* Requests handled concurrently: two handlers in flight, interleaving at their
\* suspension points with each other, with the clock and with the sweep.  The
\* requests come from one client and carry an unreadable body or the scenario
\* submission; the provider accepts the message or refuses it.
ConcurrentBodies == {Malformed, JsonObject(BaseSubmission)}
ConcurrentOutcomes == {"ok-message-id", "non2xx-json"}

PostConcurrent(s) ==
    /\ PostArrives(s, PostHeaders, ConcurrentBodies)
    /\ UNCHANGED <<now, nextSweep, env, hist, probe, form>>

PostFetchedConcurrent(s) ==
    /\ PostFetchedWith(s, ConcurrentOutcomes)
    /\ UNCHANGED <<now, rateLimitMap, nextSweep, env, hist, posts, win, last, audit, probe, form>>

InitConcurrent ==
    /\ Init
    /\ env = ProductionEnv

NextConcurrent ==
    \/ \E s \in Slots : PostConcurrent(s)
    \/ \E s \in Slots : PostBody(s)
    \/ \E s \in Slots : PostRendered(s)
    \/ \E s \in Slots : PostFetchedConcurrent(s)
    \/ Tick
    \/ Sweep

SpecConcurrent == InitConcurrent /\ [][NextConcurrent]_vars

-----------------------------------------------------------------------------
(* Claims on the limiter, under SpecLimiter *)

\* C1: with the default policy, the calls of one key that fall in one window are
\* not limited up to the fifth, and the call after the fifth (the sixth) is limited.
C1_FiveThenLimited ==
    last.made =>
        LET n == win[last.key].n
        IN  /\ n <= 5 => ~last.limited
            /\ n = 6 => last.limited

C1_Witness ==
    /\ last.made
    /\ win[last.key].n = 6
    /\ last.limited

\* C2: a call made strictly after the record's resetTime is not limited and replaces
\* the record by count 1 and resetTime now + window, whatever happened in the window
\* before; and a limited call leaves resetTime as it was.
C2_ResetAfterWindow ==
    [][posts' = posts + 1 =>
        LET k == last'.key
        IN  /\ (k \in DOMAIN rateLimitMap /\ now > rateLimitMap[k].resetTime) =>
                /\ ~last'.limited
                /\ rateLimitMap'[k] = [count |-> 1, resetTime |-> now + DEFAULT_WINDOW_MS]
            /\ last'.limited =>
                /\ k \in DOMAIN rateLimitMap
                /\ rateLimitMap'[k].resetTime = rateLimitMap[k].resetTime]_vars

\* a window with limited calls has closed and the first call after it was let through
C2_Witness ==
    /\ last.made
    /\ ~last.limited
    /\ win[last.key].n = 1
    /\ win[last.key].closed > 5
    /\ rateLimitMap[last.key] = [count |-> 1, resetTime |-> now + DEFAULT_WINDOW_MS]

-----------------------------------------------------------------------------
(* Claims on the route, under Spec *)

\* The constraint of the submission schema on one field, as the data model states
\* it: name 2-100, email well-formed and at most 255, subject 3-200, message
\* 20-5000, projectType and budget absent or in their sets, honeypot absent or empty.
Within(v, lo, hi) == v.type = "string" /\ v.len >= lo /\ v.len <= hi

FieldOk(f, v) ==
    CASE f = "name" -> Within(v, 2, 100)
      [] f = "email" -> Within(v, 0, 255) /\ v.spells = "email"
      [] f = "subject" -> Within(v, 3, 200)
      [] f = "message" -> Within(v, 20, 5000)
      [] f = "projectType" -> v = Undefined \/ (v.type = "string" /\ v.spells \in projectTypes)
      [] f = "budget" -> v = Undefined \/ (v.type = "string" /\ v.spells \in budgetRanges)
      [] f = "honeypot" -> v = Undefined \/ Within(v, 0, 0)

FieldNames == {Fields[i] : i \in 1..Len(Fields)}

Violated(o) == {f \in FieldNames : ~FieldOk(f, o[f])}

\* the request of slot s has been answered
Answered(s) == req[s].pc = "done"

\* the request of slot s carries a JSON object
CarriesObject(s) == req[s].body.json = "object"

StageOrder == <<"rate-check", "parse", "validate", "honeypot", "send">>

IsPrefix(p, q) == Len(p) <= Len(q) /\ SubSeq(q, 1, Len(p)) = p

\* C3: a submission with the honeypot filled and every other field valid, from a
\* client that is not rate-limited, is answered 200 with success true and causes no
\* call to the provider.
C3_HoneypotSilentSuccess ==
    \A s \in Slots :
        (/\ Answered(s)
         /\ ~req[s].limited
         /\ CarriesObject(s)
         /\ Violated(req[s].body.value) \subseteq {"honeypot"}
         /\ HoneypotFilled(req[s].body.value))
        => /\ req[s].response.status = 200
           /\ req[s].response.success
           /\ req[s].fetches = 0

\* C4 as stated: a request with a malformed JSON body is answered 400 INVALID_JSON
\* in every state of the rate-limit table.
C4_InvalidJsonAlways ==
    \A s \in Slots :
        (Answered(s) /\ req[s].body = Malformed)
        => /\ req[s].response.status = 400
           /\ req[s].response.code = "INVALID_JSON"

\* C4 as amended: a request with a malformed JSON body is answered 400 INVALID_JSON
\* when its client is not rate-limited, and 429 RATE_LIMIT_EXCEEDED when it is.
C4_InvalidJsonUnlessLimited ==
    \A s \in Slots :
        (Answered(s) /\ req[s].body = Malformed)
        => IF req[s].limited
           THEN req[s].response = RateLimitResponse
           ELSE req[s].response = InvalidJsonResponse

\* a malformed body answered 400 while the client's record already counts requests
C4_Witness ==
    \E s \in Slots :
        /\ Answered(s)
        /\ req[s].body = Malformed
        /\ req[s].rank = 5
        /\ req[s].response = InvalidJsonResponse

\* C5: the stages are entered in the order rate-check, parse, validate, honeypot,
\* send; the stage that fails is the last one entered; and the provider is called
\* only for a request that was not limited, carried a parsable body that satisfies
\* the schema, and has an empty honeypot.
C5_StagesInOrder ==
    \A s \in Slots :
        LET r == req[s]
        IN  /\ IsPrefix(r.stages, StageOrder)
            /\ r.pc # "idle" => Len(r.stages) >= 1
            /\ r.response.code = "RATE_LIMIT_EXCEEDED" => r.stages = SubSeq(StageOrder, 1, 1)
            /\ r.response.code = "INVALID_JSON" => r.stages = SubSeq(StageOrder, 1, 2)
            /\ r.response.code = "VALIDATION_ERROR" => r.stages = SubSeq(StageOrder, 1, 3)
            /\ r.pc \in {"render", "fetch"} => r.stages = StageOrder
            /\ (r.fetches > 0 \/ r.pc \in {"render", "fetch"}) =>
                /\ ~r.limited
                /\ r.body.json = "object"
                /\ Violated(r.body.value) = {}
                /\ ~HoneypotFilled(r.body.value)

\* a request has reached the provider
C5_Witness ==
    \E s \in Slots : req[s].pc = "fetch" /\ req[s].fetches = 1

\* C6 as stated: every request answered 200 after the send stage caused exactly one
\* call to the provider, and every request answered on the honeypot path none.
C6_OneDispatchPerSuccess ==
    \A s \in Slots :
        LET r == req[s]
        IN  (Answered(s) /\ r.response.status = 200) =>
                IF r.stages = StageOrder THEN r.fetches = 1 ELSE r.fetches = 0

\* C6 as amended: in production every request answered 200 after the send stage
\* caused exactly one call to the provider, which answered 2xx; outside production
\* it caused none; and a request answered on the honeypot path caused none.
C6_OneDispatchInProduction ==
    \A s \in Slots :
        LET r == req[s]
        IN  (Answered(s) /\ r.response.status = 200) =>
                IF r.stages = StageOrder
                THEN IF env.NODE_ENV = "production"
                     THEN r.fetches = 1 /\ r.accepted
                     ELSE r.fetches = 0 /\ r.response.messageId = "dev-console"
                ELSE r.fetches = 0

\* a production request answered 200 with the provider's message identifier
C6_Witness ==
    \E s \in Slots :
        /\ Answered(s)
        /\ env.NODE_ENV = "production"
        /\ req[s].response.status = 200
        /\ req[s].response.messageId = "provider-id"
        /\ req[s].fetches = 1

\* C7: the arrival of a request changes the record of its client, by creating or
\* replacing it with count 1 or by adding 1 to its count, before anything else of
\* the request is looked at; every request that is past its arrival, whatever its
\* outcome, went through that step first.
C7_EveryPostCounts ==
    [][/\ posts' = posts + 1 =>
            LET k == last'.key
            IN  /\ k \in DOMAIN rateLimitMap'
                /\ IF k \in DOMAIN rateLimitMap /\ now <= rateLimitMap[k].resetTime
                   THEN rateLimitMap'[k] =
                            [rateLimitMap[k] EXCEPT !.count = rateLimitMap[k].count + 1]
                   ELSE rateLimitMap'[k] =
                            [count |-> 1, resetTime |-> now + DEFAULT_WINDOW_MS]
       /\ \A s \in Slots :
            req'[s] # req[s] =>
                /\ req'[s].stages[1] = "rate-check"
                /\ req[s].pc \in {"idle", "done"} => posts' = posts + 1]_vars

\* a request refused by the limiter has been counted beyond the limit
C7_Witness ==
    \E s \in Slots :
        /\ Answered(s)
        /\ req[s].limited
        /\ req[s].ip \in DOMAIN rateLimitMap
        /\ rateLimitMap[req[s].ip].count = 7

\* C8: of the requests one client sends in one window, none of the first five is
\* answered 429, and the sixth is answered 429 RATE_LIMIT_EXCEEDED with
\* Retry-After: 60, whatever it carries.
C8_SixthIs429 ==
    \A s \in Slots :
        Answered(s) =>
            /\ req[s].rank <= 5 => req[s].response.status # 429
            /\ req[s].rank = 6 =>
                /\ req[s].response.status = 429
                /\ req[s].response.code = "RATE_LIMIT_EXCEEDED"
                /\ req[s].response.retryAfter = "60"

\* the sixth request of a window, a valid submission, answered 429
C8_Witness ==
    \E s \in Slots :
        /\ Answered(s)
        /\ req[s].rank = 6
        /\ req[s].body = JsonObject(BaseSubmission)
        /\ req[s].response = RateLimitResponse

\* C9: no exception leaves the handler, a request has no response before it is
\* answered, and the response it is answered with is one of (200, success),
\* (400, INVALID_JSON), (400, VALIDATION_ERROR, errors), (429,
\* RATE_LIMIT_EXCEEDED), (500, SERVER_ERROR).
C9_ResponseShapes ==
    \A s \in Slots :
        LET r == req[s].response
        IN  /\ req[s].pc # "throw"
            /\ ~Answered(s) => r = NoResponse
            /\ Answered(s) =>
                \/ r.status = 200 /\ r.success /\ r.code = "none"
                \/ r.status = 400 /\ ~r.success /\ r.code = "INVALID_JSON"
                \/ r.status = 400 /\ ~r.success /\ r.code = "VALIDATION_ERROR"
                    /\ Len(r.errors) >= 1
                \/ r.status = 429 /\ ~r.success /\ r.code = "RATE_LIMIT_EXCEEDED"
                \/ r.status = 500 /\ ~r.success /\ r.code = "SERVER_ERROR"

\* an exception thrown on the provider's answer became a 500
C9_Witness ==
    \E s \in Slots :
        /\ Answered(s)
        /\ req[s].error = "Unexpected token in JSON"
        /\ req[s].response = ServerErrorResponse

\* C10: a submission that violates the constraint of exactly one field is answered
\* 400 VALIDATION_ERROR with exactly one error, whose field is that field.
C10_OneErrorPerViolation ==
    \A s \in Slots :
        (/\ Answered(s)
         /\ ~req[s].limited
         /\ CarriesObject(s)
         /\ Cardinality(Violated(req[s].body.value)) = 1)
        => /\ req[s].response.status = 400
           /\ req[s].response.code = "VALIDATION_ERROR"
           /\ Len(req[s].response.errors) = 1
           /\ req[s].response.errors[1].field \in Violated(req[s].body.value)

\* the scenario of the design: a message of 5 characters
C10_Witness ==
    \E s \in Slots :
        /\ Answered(s)
        /\ req[s].body = JsonObject([BaseSubmission EXCEPT !.message = Str(5, "text")])
        /\ req[s].response.errors =
            <<Issue("message", "Le message doit contenir au moins 20 caracteres")>>

\* C11: every failure of the send stage (a missing key, a missing sender address,
\* a non-2xx answer, a network error, an unreadable answer) is answered with the
\* same response: 500, SERVER_ERROR and the handler's fixed text, in which nothing
\* of the error thrown appears.
C11_SameServerError ==
    \A s \in Slots :
        (Answered(s) /\ req[s].error # "none") =>
            /\ req[s].response.status = 500
            /\ req[s].response.code = "SERVER_ERROR"
            /\ req[s].response.error = "Une erreur est survenue lors de l'envoi du message."
            /\ req[s].response = ServerErrorResponse

\* a failure that carries the provider's own error text
C11_Witness ==
    \E s \in Slots :
        /\ Answered(s)
        /\ req[s].error = "Failed to send email: provider message"
        /\ req[s].response = ServerErrorResponse

\* C12: outside production no request reaches the content generation or the
\* provider, and every request that enters the send stage is answered at once
\* with the message identifier 'dev-console', whatever is configured.
C12_DevBypass ==
    env.NODE_ENV # "production" =>
        \A s \in Slots :
            /\ req[s].pc \notin {"render", "fetch"}
            /\ req[s].fetches = 0
            /\ req[s].error = "none"
            /\ req[s].stages = StageOrder =>
                /\ Answered(s)
                /\ req[s].response = SuccessResponse("dev-console")

\* a development process with nothing configured has answered a valid submission
C12_Witness ==
    \E s \in Slots :
        /\ env.NODE_ENV # "production"
        /\ ~env.BREVO_API_KEY
        /\ req[s].stages = StageOrder
        /\ req[s].response.messageId = "dev-console"

\* C13 as stated: a request that enters the send stage while the API key is not
\* configured is never answered with success nor given a message identifier.
C13_NoKeyNoSuccess ==
    \A s \in Slots :
        (Answered(s) /\ req[s].stages = StageOrder /\ ~env.BREVO_API_KEY) =>
            /\ ~req[s].response.success
            /\ req[s].response.messageId = "none"

\* C13 as amended: in production, a request that enters the send stage while the
\* API key is not configured fails with a configuration error before any call to
\* the provider and is answered 500 without a message identifier; outside
\* production the key is not looked at.
C13_NoKeyFailsInProduction ==
    \A s \in Slots :
        (req[s].stages = StageOrder /\ ~env.BREVO_API_KEY) =>
            IF env.NODE_ENV = "production"
            THEN /\ req[s].pc # "fetch"
                 /\ req[s].fetches = 0
                 /\ Answered(s) =>
                     /\ req[s].error \in
                         {"BREVO_API_KEY is not defined in environment variables",
                          "BREVO_SENDER_EMAIL is not defined in environment variables"}
                     /\ req[s].response = ServerErrorResponse
            ELSE Answered(s) /\ req[s].response = SuccessResponse("dev-console")

\* production with the sender address set and the key missing: the key's error
C13_Witness ==
    \E s \in Slots :
        /\ Answered(s)
        /\ env.NODE_ENV = "production"
        /\ req[s].error = "BREVO_API_KEY is not defined in environment variables"
        /\ req[s].response = ServerErrorResponse

-----------------------------------------------------------------------------
(* The limiter and its sweep *)

\* C18: the results of the calls are those of the same calls made at the same
\* instants on a table that is never swept: the latest call returned what it
\* returns there, and the two tables differ only by records that have expired.
C18_SweepUnobservable ==
    /\ last.made => last.limited = audit.limited
    /\ DOMAIN rateLimitMap \subseteq DOMAIN audit.ref
    /\ \A k \in DOMAIN audit.ref :
        IF k \in DOMAIN rateLimitMap
        THEN rateLimitMap[k] = audit.ref[k]
        ELSE now > audit.ref[k].resetTime

\* a sweep deleted the record of a key that had been limited, and the key called
\* again
C18_Witness ==
    /\ audit.resumed
    /\ nextSweep > 0
    /\ ~last.limited
    /\ win[last.key].closed > DEFAULT_MAX_REQUESTS
    /\ rateLimitMap[last.key].count = 1

\* C19: a call on a key whose record exists and has not expired (now <= resetTime)
\* adds exactly 1 to the record's count, leaves its resetTime as it was and
\* returns limited iff the new count exceeds 5; and the count of every record is
\* the number of calls, limited ones included, made on its key in the window of
\* the key's latest call.
C19_CountIsCallsInWindow ==
    /\ [](\A k \in DOMAIN rateLimitMap : rateLimitMap[k].count = win[k].n)
    /\ [][posts' = posts + 1 =>
            LET k == last'.key
            IN  (k \in DOMAIN rateLimitMap /\ now <= rateLimitMap[k].resetTime) =>
                    /\ rateLimitMap'[k].count = rateLimitMap[k].count + 1
                    /\ rateLimitMap'[k].resetTime = rateLimitMap[k].resetTime
                    /\ last'.limited <=> (rateLimitMap'[k].count > DEFAULT_MAX_REQUESTS)]_vars

\* a seventh call counted in the window of its key, at the window's last instant
C19_Witness ==
    \E k \in DOMAIN rateLimitMap :
        /\ last.key = k
        /\ last.limited
        /\ rateLimitMap[k].count = 7
        /\ now = rateLimitMap[k].resetTime

-----------------------------------------------------------------------------
(* Concurrent requests *)

InFlight(s) == req[s].pc \in {"json", "render", "fetch"}

\* C20: whatever the interleaving of the handlers, the clock and the sweep, no
\* increment is lost (the count of a record is the number of requests of its key
\* in the window of the latest one), a request passes the rate check iff it is
\* among the first 5 of its window, and at most 5 requests of a key pass the
\* rate check in one window.
C20_AtomicRateCheck ==
    /\ \A k \in DOMAIN rateLimitMap : rateLimitMap[k].count = win[k].n
    /\ \A k \in DOMAIN audit.passed : audit.passed[k] <= DEFAULT_MAX_REQUESTS
    /\ \A s \in Slots :
        req[s].pc # "idle" => (req[s].limited <=> req[s].rank > DEFAULT_MAX_REQUESTS)

\* two requests of one client are suspended at once, the fifth of the window
\* among them, after a sweep has run
C20_Witness ==
    \E s, o \in Slots :
        /\ s # o
        /\ InFlight(s) /\ InFlight(o)
        /\ req[s].ip = req[o].ip
        /\ req[s].rank = DEFAULT_MAX_REQUESTS
        /\ nextSweep > 0

-----------------------------------------------------------------------------
(* The client identifier *)

Present(name) == name \in DOMAIN probe.headers

\* f is what precedes the first comma of s, or s when it has none
IsFirstEntry(f, s) ==
    /\ \E n \in 0..Len(s) : f = SubSeq(s, 1, n)
    /\ \A i \in 1..Len(f) : f[i] # ","
    /\ Len(f) = Len(s) \/ s[Len(f) + 1] = ","

\* r is f without the spaces at its ends
IsTrimOf(r, f) ==
    /\ r = <<>> \/ (r[1] # " " /\ r[Len(r)] # " ")
    /\ \E i \in 0..Len(f) :
        /\ i + Len(r) <= Len(f)
        /\ r = SubSeq(f, i + 1, i + Len(r))
        /\ \A j \in 1..Len(f) : (j <= i \/ j > i + Len(r)) => f[j] = " "

IsTrimmedFirstEntry(r, s) ==
    \E n \in 0..Len(s) : IsFirstEntry(SubSeq(s, 1, n), s) /\ IsTrimOf(r, SubSeq(s, 1, n))

\* C17 as stated: the trimmed first entry of x-forwarded-for whenever that header
\* is present, otherwise x-real-ip whenever that header is present, otherwise
\* 'unknown'; and a second call on the same headers returns the same.
C17_PresentHeaderWins ==
    probe.calls > 0 =>
        /\ IF Present("x-forwarded-for")
           THEN IsTrimmedFirstEntry(probe.result, probe.headers["x-forwarded-for"])
           ELSE IF Present("x-real-ip")
                THEN probe.result = probe.headers["x-real-ip"]
                ELSE probe.result = unknown
        /\ probe.result = probe.first

\* C17 as amended: the trimmed first entry of x-forwarded-for whenever that header
\* is present and not empty, otherwise x-real-ip whenever that header is present
\* and not empty, otherwise 'unknown'; and a second call on the same headers
\* returns the same.
C17_NonEmptyHeaderWins ==
    probe.calls > 0 =>
        /\ IF Present("x-forwarded-for") /\ probe.headers["x-forwarded-for"] # <<>>
           THEN IsTrimmedFirstEntry(probe.result, probe.headers["x-forwarded-for"])
           ELSE IF Present("x-real-ip") /\ probe.headers["x-real-ip"] # <<>>
                THEN probe.result = probe.headers["x-real-ip"]
                ELSE probe.result = unknown
        /\ probe.result = probe.first

\* an empty x-forwarded-for gives way to x-real-ip, on both calls
C17_Witness ==
    /\ probe.calls = 2
    /\ Present("x-forwarded-for") /\ probe.headers["x-forwarded-for"] = <<>>
    /\ Present("x-real-ip")
    /\ probe.result = <<"b">>

-----------------------------------------------------------------------------
(* The form *)

\* the requests of the form that are outstanding: sent and not yet settled
Outstanding == {s \in Slots : req[s].pc # "idle"}

\* the step settles the request of slot s in the browser
Settles(s) == req[s].pc = "done" /\ req'[s].pc = "idle"

\* C14: a request calls the provider at most once; when that call fails the
\* request is answered 500 with no other call; and when a request of the form
\* fails, the client sends no request in its place.
C14_NoRetry ==
    /\ [](\A s \in Slots : req[s].fetches <= 1)
    /\ [][\A s \in Slots :
            /\ (req[s].pc = "fetch" /\ req'[s].pc # "fetch" /\ req'[s].error # "none") =>
                    /\ req'[s].pc = "done"
                    /\ req'[s].fetches = 1
                    /\ req'[s].response = ServerErrorResponse
            /\ (req[s].pc = "done" /\ req'[s] # req[s]) =>
                    /\ req'[s].pc = "idle"
                    /\ posts' = posts]_vars

\* the provider refused the only request sent, the form showed the 500's text
\* and nothing else was sent
C14_Witness ==
    /\ posts = 1
    /\ Outstanding = {}
    /\ ~form.pending
    /\ form.toast = [kind |-> "error", text |-> ServerErrorResponse.error]

\* C15: at most one request of the form is outstanding at any moment.
C15_OneOutstanding == Cardinality(Outstanding) <= 1

\* C16: when a request of the form settles with success every field is reset to
\* contactFormDefaultValues, and when it settles with a failure (a response that
\* is not 2xx, a network error) a toast shows the error's message and every
\* field keeps its value.
C16_ResetOrKeep ==
    [][\A s \in Slots :
        Settles(s) =>
            IF form'.settled.ok
            THEN form'.values = contactFormDefaultValues
            ELSE /\ form'.toast = [kind |-> "error", text |-> form'.settled.error]
                 /\ form'.values = form.values]_vars

-----------------------------------------------------------------------------
(* The form's validation *)

\* the schema rejects the value the form holds in field f
SchemaRejects(f) ==
    LET issues == contactSchemaIssues(form.values)
    IN  \E i \in 1..Len(issues) : issues[i].field = f

\* C21: for each of name, subject and message, the on-blur check rejects the
\* field's value exactly when the schema rejects it, on the minimum and on the
\* maximum length.
C21_BlurMirrorsSchema ==
    \A f \in DOMAIN form.meta :
        form.meta[f] # "unchecked" => ((form.meta[f] # "undefined") <=> SchemaRejects(f))

\* the step sends a request from slot s
Sends(s) == req[s].pc = "idle" /\ req'[s].pc # "idle"

\* the step starts a mutation
Mutates == form'.pending /\ (~form.pending \/ form'.current # form.current)

\* C22: the form sends a request only when its values pass the schema, and the
\* request carries those values; a submit of values that fail it (a honeypot
\* that is not empty included) starts no mutation and sends no request.
C22_OnlyValidValuesSent ==
    [][/\ \A s \in Slots : Sends(s) =>
            /\ Violated(form.values) = {}
            /\ req'[s].body = JsonObject(form.values)
       /\ (posts' # posts \/ Mutates) => Violated(form.values) = {}
       /\ (form'.errors # form.errors /\ form'.errors # NoErrors) =>
            /\ Violated(form.values) # {}
            /\ DOMAIN form'.errors = Violated(form.values)
            /\ posts' = posts
            /\ req' = req
            /\ form'.pending = form.pending]_vars

\* the form was submitted with a honeypot that is not empty: the field has its
\* error and nothing was sent
C22_Witness ==
    /\ "honeypot" \in DOMAIN form.errors
    /\ form.values.honeypot.len > 0
    /\ posts = 0
    /\ ~form.pending
    /\ \A s \in Slots : req[s].pc = "idle"

-----------------------------------------------------------------------------
(* The limiter, identifier by identifier *)

\* the step is a call of isRateLimited
Calls == posts' = posts + 1

\* C24: a call of isRateLimited for an identifier creates, replaces or
\* increments that identifier's record only: the record of every other
\* identifier is the same after the call as before it, present or absent, and
\* the call's result is a function of the caller's own record and the instant.
C24_OnlyOwnRecord ==
    [][Calls =>
        LET k == last'.key
        IN  /\ k \in DOMAIN rateLimitMap'
            /\ \A b \in (DOMAIN rateLimitMap \cup DOMAIN rateLimitMap') \ {k} :
                /\ b \in DOMAIN rateLimitMap
                /\ b \in DOMAIN rateLimitMap'
                /\ rateLimitMap'[b] = rateLimitMap[b]
            /\ last'.limited =
                  /\ k \in DOMAIN rateLimitMap
                  /\ now <= rateLimitMap[k].resetTime
                  /\ rateLimitMap[k].count >= DEFAULT_MAX_REQUESTS]_vars

\* one identifier opened its window after another one did and has just been
\* refused in it, and the record of the other one is still as it was made
C24_Witness ==
    /\ last.made
    /\ last.limited
    /\ \E b \in DOMAIN rateLimitMap \ {last.key} :
        /\ rateLimitMap[last.key].count > DEFAULT_MAX_REQUESTS
        /\ rateLimitMap[b].count = 1
        /\ rateLimitMap[b].resetTime < rateLimitMap[last.key].resetTime

-----------------------------------------------------------------------------
(* The provider's answer and the response *)

\* C25: a request answered 500 SERVER_ERROR had no email accepted by the
\* provider: a call to the provider that was answered 2xx never leads to a 500.
C25_ServerErrorMeansNotAccepted ==
    \A s \in Slots :
        (Answered(s) /\ req[s].response.status = 500) => ~req[s].accepted

-----------------------------------------------------------------------------
(* The limiter and the clock *)

\* Retry-After: 60, in milliseconds
RetryAfterMs == 60 * 1000

RECURSIVE SumOver(_, _)
SumOver(f, S) ==
    IF S = {} THEN 0
    ELSE LET x == CHOOSE y \in S : TRUE IN f[x] + SumOver(f, S \ {x})

\* the calls of key k that passed at an instant of lo..hi
PassesIn(k, lo, hi) ==
    SumOver(hist[k].passes, {t \in DOMAIN hist[k].passes : lo <= t /\ t <= hi})

\* C23: a client that was refused at instant t (and so answered 429 with
\* Retry-After: 60) and makes its next request at t + 60 s or later is not
\* refused on it, whenever the earlier requests of the window were made.
C23_RetryAfterHonoured ==
    [][Calls =>
        LET k == last'.key
        IN  (/\ k \in DOMAIN hist
             /\ hist[k].refused >= 0
             /\ now >= hist[k].refused + RetryAfterMs) => ~last'.limited]_vars

\* C26: with the default policy, the calls of one identifier that pass within
\* any interval of 60 seconds are at most 10, and those that pass within the
\* window of one record are at most 5.
C26_PassesBounded ==
    \A k \in DOMAIN hist :
        /\ \A x \in DOMAIN hist[k].passes :
            PassesIn(k, x, x + DEFAULT_WINDOW_MS) <= 2 * DEFAULT_MAX_REQUESTS
        /\ k \in DOMAIN rateLimitMap =>
            PassesIn(k, rateLimitMap[k].resetTime - DEFAULT_WINDOW_MS,
                     rateLimitMap[k].resetTime) <= DEFAULT_MAX_REQUESTS

\* nine calls of an identifier passed within 60 seconds, five of them in the
\* window of its record, and the next one was refused
C26_Witness ==
    /\ last.made
    /\ last.limited
    /\ last.key \in DOMAIN rateLimitMap
    /\ PassesIn(last.key, rateLimitMap[last.key].resetTime - DEFAULT_WINDOW_MS,
                rateLimitMap[last.key].resetTime) = DEFAULT_MAX_REQUESTS
    /\ \E x \in DOMAIN hist[last.key].passes :
        PassesIn(last.key, x, x + DEFAULT_WINDOW_MS) = 2 * DEFAULT_MAX_REQUESTS - 1

====
